---- MODULE Spec2Model ----
(***************************************************************************)
(* A model of the sync tool (e2e_demo/sync_tool/sync.py) and of the mock   *)
(* source / sink service it talks to (e2e_demo/api/app.py).                *)
(*                                                                         *)
(* The program is one sequential thread.  Its position is (pc, rpc): pc is *)
(* main's position (fetching pages, upserting records, finished), rpc the  *)
(* position inside request_with_retries (about to make a network call,     *)
(* about to sleep, returned, raised).                                      *)
(*                                                                         *)
(* Optional values (None in the code) are sets with at most one element.   *)
(* Delays are integers, in ticks of 1/TicksPerMs milliseconds, so that the *)
(* jittered backoff is exact.                                              *)
(***************************************************************************)
EXTENDS Integers, Sequences, FiniteSets, TLC

VARIABLES
    FAIL_SOURCE_PAGE_2_ONCE,      \* app.py: fail-once flag of the source
    SINK_ITEMS_BY_EXTERNAL_ID,    \* app.py: the sink, a dict external_id -> payload
    sink_write_calls,             \* app.py: _sink_write_calls
    rpc,        \* request_with_retries: "idle", "attempt", "sleep", "returned", "raised"
    req,        \* the request of the current (or last) request_with_retries call
    attempt,    \* the loop variable of request_with_retries
    calls,      \* network calls made by the current request_with_retries call
    slept,      \* sleeps completed by the current request_with_retries call
    sleep_s,    \* the delay handed to time.sleep (a float)
    last,       \* the outcome of the last network call
    exc,        \* the exception request_with_retries raised ("" if none)
    first_ok,   \* history: index of the first call of this invocation answered with
                \* a status < 400 (0: none)
    retryable_calls,  \* history: calls of this invocation that ended in a retryable status
                      \* (429, 408, 5xx) or in a network fault
    pc,         \* main: "fetch", "fetch_wait", "fetched", "upsert", "upsert_wait", "done",
                \* "aborted" ("request": request_with_retries is called on its own)
    run,        \* which invocation of main this is
    dry_run,    \* args.dry_run
    limit,      \* args.limit (None or an integer)
    page,       \* fetch_all_source_items: page (None or an integer)
    items,      \* fetch_all_source_items: items, then main's items
    idx,        \* upsert_sink_items: position in source_items (1-based)
    created,
    updated,
    failed,
    exit_code,  \* main's return value (None while running or after an uncaught exception)
    report,     \* the dry-run report written by main (None or [count, external_ids])
    pages_fetched,  \* history: request_with_retries calls started by the fetcher in this run
    attempted,      \* history: external_ids for which an upsert was started in this run
    exhausted,      \* history: upserts of this run that failed after max_attempts calls
    posts,          \* history: POST calls issued in this run
    sink_at_start,  \* history: the sink when this run started
    prev,           \* history: how the previous run ended
    faulty,         \* history: request_with_retries calls the network has disturbed so far
    tainted         \* history: the network has disturbed the current request_with_retries call

vars == << FAIL_SOURCE_PAGE_2_ONCE, SINK_ITEMS_BY_EXTERNAL_ID, sink_write_calls,
           rpc, req, attempt, calls, slept, sleep_s, last, exc, first_ok, retryable_calls,
           pc, run, dry_run, limit, page, items, idx, created, updated, failed,
           exit_code, report, pages_fetched, attempted, exhausted, posts,
           sink_at_start, prev, faulty, tainted >>

serverVars == << FAIL_SOURCE_PAGE_2_ONCE, SINK_ITEMS_BY_EXTERNAL_ID, sink_write_calls >>
requestVars == << rpc, req, attempt, calls, slept, sleep_s, last, exc, first_ok,
                  retryable_calls >>
mainVars == << pc, run, dry_run, limit, page, items, idx, created, updated, failed,
               exit_code, report >>
historyVars == << pages_fetched, attempted, exhausted, posts, sink_at_start, prev,
                  faulty, tainted >>

-----------------------------------------------------------------------------
(* Bounds of the model *)

NumItems == 5        \* records seeded in the source (25 in app.py)
PageSize == 2        \* page_size of the fetcher (10 in sync.py)
MaxRuns == 2         \* invocations of main against the same services
JitterSteps == 2     \* random.random() is drawn from {0, 1/JitterSteps, ...}
MaxLimit == 3        \* --limit is drawn from None, MinLimit, 0 and MaxLimit
MaxFaulty == 1       \* request_with_retries calls the network may disturb
MaxReported == 22    \* longest record list whose report preview is computed
MaxAttemptNo == 1025 \* largest attempt number backoff is computed for

(* Program constants *)

max_attempts == 6
base_delay_ms == 400
max_delay_ms == 5000
max_pages == 100
SINK_429_EVERY_N_CALLS == 5

MinLimit == 0 - 1

None == {}
Some(x) == {x}
IsNone(o) == o = {}
Get(o) == CHOOSE x \in o : TRUE

Min(a, b) == IF a <= b THEN a ELSE b
Max(a, b) == IF a >= b THEN a ELSE b

RECURSIVE Pow2(_)
Pow2(n) == IF n <= 0 THEN 1 ELSE 2 * Pow2(n - 1)

-----------------------------------------------------------------------------
(* Floats: a finite value in ticks, or nan, or inf *)

TicksPerMs == 2 * JitterSteps
Num(t) == [kind |-> "num", v |-> t]
NaN == [kind |-> "nan", v |-> 0]
Inf == [kind |-> "inf", v |-> 0]
Seconds(n) == Num(n * 1000 * TicksPerMs)

Jitter == 0 .. (JitterSteps - 1)

\* base * 2 ** e as far as min(cap, ...) needs it: the doubling stops once the cap
\* is reached (base > 0)
RECURSIVE scaled(_, _, _)
scaled(b, e, cap) == IF e <= 0 \/ b >= cap THEN b ELSE scaled(2 * b, e - 1, cap)

\* The largest binary exponent of a float is float_max_exp - 1: converting the int
\* 2 ** e to a float, as base * (2 ** e) does, raises OverflowError from e =
\* float_max_exp on
float_max_exp == 1024
backoff_raises(n) == n - 1 >= float_max_exp

\* backoff(attempt, base, cap) with random.random() = j / JitterSteps, where it
\* returns
backoff(n, base, cap, j) ==
    LET delay == Min(cap, scaled(base, n - 1, cap))
    IN  Num(delay * (JitterSteps + 2 * j))

policy_backoff(n, j) == backoff(n, base_delay_ms, max_delay_ms, j)

\* should_retry without its 5xx branch
should_retry_no_5xx(status_code) ==
    \/ status_code = 429
    \/ status_code \in {408}

\* should_retry that retries every error status
should_retry_any_error(status_code) == status_code >= 400

should_retry(status_code) ==
    \/ status_code = 429
    \/ (500 <= status_code /\ status_code <= 599)
    \/ status_code \in {408}

\* float(retry_after): the parsed value, or {} when float() raises ValueError
RetryAfterTexts == {"", "abc", "-1", "0", "1", "2", "nan", "inf"}
float(s) ==
    CASE s = "-1" -> Some(Seconds(0 - 1))
      [] s = "0" -> Some(Seconds(0))
      [] s = "1" -> Some(Seconds(1))
      [] s = "2" -> Some(Seconds(2))
      [] s = "nan" -> Some(NaN)
      [] s = "inf" -> Some(Inf)
      [] OTHER -> None

\* retry_delay that never reads the Retry-After header
retry_delay_no_hint(retry_after, n, j) == policy_backoff(n, j)

\* lines 91-98: the delay chosen after a retryable status
retry_delay(retry_after, n, j) ==
    IF ~IsNone(retry_after) /\ Get(retry_after) # ""
    THEN IF IsNone(float(Get(retry_after)))
         THEN policy_backoff(n, j)
         ELSE Get(float(Get(retry_after)))
    ELSE policy_backoff(n, j)

\* time.sleep(x): "" when it sleeps, else the exception it raises
sleep_error(x) ==
    CASE x.kind = "nan" -> "ValueError"
      [] x.kind = "inf" -> "OverflowError"
      [] x.v < 0 -> "ValueError"
      [] OTHER -> ""

-----------------------------------------------------------------------------
(* The mock service, app.py *)

Item(i) == [external_id |-> i, name |-> i, value |-> i]
SOURCE_ITEMS == [i \in 1 .. NumItems |-> Item(i)]

\* Python's seq[start:end] (0-based, end exclusive, negative indices from the end)
PyIndex(n, len) == IF n < 0 THEN Max(0, len + n) ELSE Min(n, len)
PySlice(seq, start, end) ==
    LET a == PyIndex(start, Len(seq))
        b == PyIndex(end, Len(seq))
    IN  IF a >= b THEN << >> ELSE SubSeq(seq, a + 1, b)

\* What one network call yields: a response or an httpx exception
Response(status, retry_after, its, next_page, upsert_status) ==
    [kind |-> "response", status |-> status, retry_after |-> retry_after,
     items |-> its, next_page |-> next_page, upsert_status |-> upsert_status]
Fault(kind) ==
    [kind |-> kind, status |-> 0, retry_after |-> None,
     items |-> << >>, next_page |-> None, upsert_status |-> ""]
NoOutcome == Fault("none")

\* GET /source/items: the response, given the fail-once flag
source_items(p, lim, fail_once) ==
    IF p = 2 /\ fail_once
    THEN Response(500, None, << >>, None, "")
    ELSE LET start == (p - 1) * lim
             end == start + lim
         IN  Response(200, None, PySlice(SOURCE_ITEMS, start, end),
                      IF end < Len(SOURCE_ITEMS) THEN Some(p + 1) ELSE None, "")
source_items_flag(p, fail_once) == IF p = 2 /\ fail_once THEN FALSE ELSE fail_once

\* sink_rejects of a sink that rejects every write call
sink_rejects_every_call(n_calls) == SINK_429_EVERY_N_CALLS > 0

\* POST /sink/items: the response, given the sink and the call counter before the call
sink_rejects(n_calls) ==
    SINK_429_EVERY_N_CALLS > 0 /\ (n_calls + 1) % SINK_429_EVERY_N_CALLS = 0
sink_upsert(payload, sink, n_calls) ==
    IF sink_rejects(n_calls)
    THEN Response(429, Some("1"), << >>, None, "")
    ELSE Response(200, None, << >>, None,
                  IF payload.external_id \notin DOMAIN sink THEN "created" ELSE "updated")
\* sink_upsert that stores every accepted call as a new record
sink_upsert_insert(payload, sink, n_calls) ==
    IF sink_rejects(n_calls)
    THEN sink
    ELSE [k \in DOMAIN sink \cup {n_calls + 1} |->
            IF k = n_calls + 1 THEN payload ELSE sink[k]]

sink_upsert_store(payload, sink, n_calls) ==
    IF sink_rejects(n_calls)
    THEN sink
    ELSE [k \in DOMAIN sink \cup {payload.external_id} |->
            IF k = payload.external_id THEN payload ELSE sink[k]]

\* The request the tool sends
GetRequest(p) == [method |-> "GET", page |-> p, payload |-> Item(0)]
PostRequest(payload) == [method |-> "POST", page |-> 0, payload |-> payload]
NoRequest == [method |-> "", page |-> 0, payload |-> Item(0)]

\* The service handles request r: its response and its state afterwards
Serve(r) ==
    IF r.method = "GET"
    THEN source_items(r.page, PageSize, FAIL_SOURCE_PAGE_2_ONCE)
    ELSE sink_upsert(r.payload, SINK_ITEMS_BY_EXTERNAL_ID, sink_write_calls)
ServeEffect(r) ==
    IF r.method = "GET"
    THEN /\ FAIL_SOURCE_PAGE_2_ONCE' = source_items_flag(r.page, FAIL_SOURCE_PAGE_2_ONCE)
         /\ UNCHANGED << SINK_ITEMS_BY_EXTERNAL_ID, sink_write_calls >>
    ELSE /\ sink_write_calls' = sink_write_calls + 1
         /\ SINK_ITEMS_BY_EXTERNAL_ID' =
                sink_upsert_store(r.payload, SINK_ITEMS_BY_EXTERNAL_ID, sink_write_calls)
         /\ UNCHANGED FAIL_SOURCE_PAGE_2_ONCE

-----------------------------------------------------------------------------
(* request_with_retries *)

\* lines 66-68: a call of request_with_retries starts
StartRequest(r) ==
    /\ rpc' = "attempt"
    /\ req' = r
    /\ attempt' = 1
    /\ calls' = 0
    /\ slept' = 0
    /\ sleep_s' = Num(0)
    /\ last' = NoOutcome
    /\ exc' = ""
    /\ first_ok' = 0
    /\ retryable_calls' = 0

\* The call is over and its locals are gone: it returned to its caller, or its
\* exception was caught there
EndRequest ==
    /\ rpc' = "idle"
    /\ req' = NoRequest
    /\ attempt' = 0
    /\ calls' = 0
    /\ slept' = 0
    /\ sleep_s' = Num(0)
    /\ last' = NoOutcome
    /\ exc' = ""
    /\ first_ok' = 0
    /\ retryable_calls' = 0

\* is_success that takes only a status below 300 for a success
is_success_below_300(status_code) == status_code < 300

\* may_retry of a loop that retries whatever the attempt number
may_retry_always(n) == TRUE

\* may_retry with the comparison off by one
may_retry_off_by_one(n) == n <= max_attempts

\* line 86: the response is a success
is_success(status_code) == status_code < 400

\* lines 89 and 109: another attempt is left
may_retry(n) == n < max_attempts

\* line 103: resp.raise_for_status() raises unless the status is 2xx
raise_for_status(status_code) == ~(200 <= status_code /\ status_code <= 299)

\* The outcomes the retry policy is specified to retry: status 429, 408, 500-599,
\* and the network-level faults
RetryableStatus(st) == st \in {408, 429} \/ st \in 500 .. 599
IsRetryable(out) ==
    \/ out.kind \in {"NetworkError", "TimeoutException"}
    \/ out.kind = "response" /\ RetryableStatus(out.status)

\* lines 86-111: what the loop body does with the outcome of client.request
Respond(out) ==
    /\ calls' = calls + 1
    /\ last' = out
    /\ first_ok' = IF first_ok = 0 /\ out.kind = "response" /\ out.status < 400
                   THEN calls + 1 ELSE first_ok
    /\ retryable_calls' = IF IsRetryable(out) THEN retryable_calls + 1 ELSE retryable_calls
    /\ UNCHANGED << req, attempt, slept >>
    /\ IF out.kind = "response"
       THEN IF is_success(out.status)
            THEN /\ rpc' = "returned"
                 /\ UNCHANGED << sleep_s, exc >>
            ELSE IF should_retry(out.status) /\ may_retry(attempt)
            THEN /\ rpc' = "sleep"
                 /\ \E j \in Jitter : sleep_s' = retry_delay(out.retry_after, attempt, j)
                 /\ UNCHANGED exc
            ELSE IF raise_for_status(out.status)
            THEN /\ rpc' = "raised"
                 /\ exc' = "HTTPStatusError"
                 /\ UNCHANGED sleep_s
            ELSE /\ rpc' = "returned"
                 /\ UNCHANGED << sleep_s, exc >>
       ELSE IF ~may_retry(attempt)
            THEN /\ rpc' = "raised"
                 /\ exc' = out.kind
                 /\ UNCHANGED sleep_s
            ELSE /\ rpc' = "sleep"
                 /\ \E j \in Jitter : sleep_s' = policy_backoff(attempt, j)
                 /\ UNCHANGED exc

\* lines 100-101 and 111: time.sleep(sleep_s), then the next iteration
Sleep ==
    /\ rpc = "sleep"
    /\ IF sleep_error(sleep_s) = ""
       THEN /\ rpc' = "attempt"
            /\ attempt' = attempt + 1
            /\ slept' = slept + 1
            /\ UNCHANGED exc
       ELSE /\ rpc' = "raised"
            /\ exc' = sleep_error(sleep_s)
            /\ UNCHANGED << attempt, slept >>
    /\ UNCHANGED << req, calls, sleep_s, last, first_ok, retryable_calls >>
    /\ UNCHANGED << serverVars, mainVars, historyVars >>

-----------------------------------------------------------------------------
(* The network between the tool and the mock service: one client.request *)

\* The network disturbs at most MaxFaulty calls of request_with_retries
MayDisturb == tainted \/ faulty < MaxFaulty
Disturb ==
    /\ tainted' = TRUE
    /\ faulty' = IF tainted THEN faulty ELSE faulty + 1

\* The request reaches the service and its response reaches the tool
Deliver ==
    /\ rpc = "attempt"
    /\ ServeEffect(req)
    /\ Respond(Serve(req))
    /\ posts' = IF req.method = "POST" THEN posts + 1 ELSE posts
    /\ UNCHANGED << mainVars, pages_fetched, attempted, exhausted, sink_at_start,
                    prev, faulty, tainted >>

\* The request never reaches the service (httpx.NetworkError)
LoseRequest ==
    /\ rpc = "attempt"
    /\ MayDisturb
    /\ Disturb
    /\ Respond(Fault("NetworkError"))
    /\ posts' = IF req.method = "POST" THEN posts + 1 ELSE posts
    /\ UNCHANGED << serverVars, mainVars, pages_fetched, attempted, exhausted, sink_at_start, prev >>

\* The service handles the request and its response is lost (httpx.TimeoutException)
LoseResponse ==
    /\ rpc = "attempt"
    /\ MayDisturb
    /\ Disturb
    /\ ServeEffect(req)
    /\ Respond(Fault("TimeoutException"))
    /\ posts' = IF req.method = "POST" THEN posts + 1 ELSE posts
    /\ UNCHANGED << mainVars, pages_fetched, attempted, exhausted, sink_at_start, prev >>

\* Something in front of the service answers with a status that is not retryable
Refuse ==
    /\ rpc = "attempt"
    /\ MayDisturb
    /\ Disturb
    /\ Respond(Response(404, None, << >>, None, ""))
    /\ posts' = IF req.method = "POST" THEN posts + 1 ELSE posts
    /\ UNCHANGED << serverVars, mainVars, pages_fetched, attempted, exhausted, sink_at_start, prev >>

-----------------------------------------------------------------------------
(* fetch_all_source_items *)

\* truncate that returns everything that was accumulated
truncate_none(its, lim) == its

\* items[:limit] when a limit is set (lines 138-139)
truncate(its, lim) == IF IsNone(lim) THEN its ELSE PySlice(its, 0, Get(lim))

\* the while condition of line 126: page and page <= max_pages
fetch_more(p) == ~IsNone(p) /\ Get(p) # 0 /\ Get(p) <= max_pages

\* lines 126-128: the loop condition holds and the page is requested
FetchPage ==
    /\ pc = "fetch"
    /\ fetch_more(page)
    /\ StartRequest(GetRequest(Get(page)))
    /\ pc' = "fetch_wait"
    /\ pages_fetched' = pages_fetched + 1
    /\ tainted' = FALSE
    /\ UNCHANGED << run, dry_run, limit, page, items, idx, created, updated, failed,
                    exit_code, report >>
    /\ UNCHANGED << serverVars, attempted, exhausted, posts, sink_at_start, prev, faulty >>

\* lines 129-136 (and 138-141 after the break): the page arrived
FetchReturn ==
    /\ pc = "fetch_wait"
    /\ rpc = "returned"
    /\ EndRequest
    /\ LET got == items \o last.items
       IN  IF ~IsNone(limit) /\ Len(got) >= Get(limit)
           THEN /\ items' = truncate(got, limit)
                /\ pc' = "fetched"
                /\ UNCHANGED page
           ELSE /\ items' = got
                /\ page' = last.next_page
                /\ pc' = "fetch"
    /\ UNCHANGED << run, dry_run, limit, idx, created, updated, failed, exit_code, report >>
    /\ UNCHANGED << serverVars, historyVars >>

\* lines 126 and 138-141: the loop condition fails and the items are returned
FetchExit ==
    /\ pc = "fetch"
    /\ ~fetch_more(page)
    /\ items' = truncate(items, limit)
    /\ pc' = "fetched"
    /\ UNCHANGED << run, dry_run, limit, page, idx, created, updated, failed,
                    exit_code, report >>
    /\ UNCHANGED << serverVars, requestVars, historyVars >>

\* A fetcher that skips the page whose request raised and goes on
FetchRaise_skip ==
    /\ pc = "fetch_wait"
    /\ rpc = "raised"
    /\ EndRequest
    /\ page' = Some(Get(page) + 1)
    /\ pc' = "fetch"
    /\ UNCHANGED << run, dry_run, limit, items, idx, created, updated, failed,
                    exit_code, report >>
    /\ UNCHANGED << serverVars, historyVars >>

\* line 128 raises: nothing catches it in fetch_all_source_items or in main
FetchRaise ==
    /\ pc = "fetch_wait"
    /\ rpc = "raised"
    /\ pc' = "aborted"
    /\ UNCHANGED << run, dry_run, limit, page, items, idx, created, updated, failed,
                    exit_code, report >>
    /\ UNCHANGED << serverVars, requestVars, historyVars >>

-----------------------------------------------------------------------------
(* main and upsert_sink_items *)

report_preview == 20

ExternalIds(its) == [i \in 1 .. Len(its) |-> its[i].external_id]

\* line 209: the external_ids of the report
report_external_ids(its) == ExternalIds(PySlice(its, 0, report_preview))

\* A dry run that writes its report and falls through into upsert_sink_items
DryRunReport_no_return ==
    /\ pc = "fetched"
    /\ dry_run
    /\ report' = Some([count |-> Len(items), external_ids |-> report_external_ids(items)])
    /\ created' = 0
    /\ updated' = 0
    /\ failed' = 0
    /\ idx' = 1
    /\ pc' = "upsert"
    /\ UNCHANGED << run, dry_run, limit, page, items, exit_code >>
    /\ UNCHANGED << serverVars, requestVars, historyVars >>

\* lines 199-217: the dry run writes its report and returns 0
DryRunReport ==
    /\ pc = "fetched"
    /\ dry_run
    /\ report' = Some([count |-> Len(items), external_ids |-> report_external_ids(items)])
    /\ exit_code' = Some(0)
    /\ pc' = "done"
    /\ UNCHANGED << run, dry_run, limit, page, items, idx, created, updated, failed >>
    /\ UNCHANGED << serverVars, requestVars, historyVars >>

\* lines 219 and 145-147: upsert_sink_items is entered
UpsertBegin ==
    /\ pc = "fetched"
    /\ ~dry_run
    /\ created' = 0
    /\ updated' = 0
    /\ failed' = 0
    /\ idx' = 1
    /\ pc' = "upsert"
    /\ UNCHANGED << run, dry_run, limit, page, items, exit_code, report >>
    /\ UNCHANGED << serverVars, requestVars, historyVars >>

\* lines 151-155: the mapping of a source item to the sink's payload
Payload(it) == [external_id |-> it.external_id, name |-> it.name, value |-> it.value]

\* lines 149-169: the next record is submitted
UpsertNext ==
    /\ pc = "upsert"
    /\ idx <= Len(items)
    /\ StartRequest(PostRequest(Payload(items[idx])))
    /\ attempted' = Append(attempted, Payload(items[idx]).external_id)
    /\ pc' = "upsert_wait"
    /\ tainted' = FALSE
    /\ UNCHANGED << run, dry_run, limit, page, items, idx, created, updated, failed,
                    exit_code, report >>
    /\ UNCHANGED << serverVars, pages_fetched, exhausted, posts, sink_at_start, prev, faulty >>

\* An upsert loop that counts only the records the sink reports as created
UpsertReturn_created_only ==
    /\ pc = "upsert_wait"
    /\ rpc = "returned"
    /\ EndRequest
    /\ created' = IF last.upsert_status = "created" THEN created + 1 ELSE created
    /\ idx' = idx + 1
    /\ pc' = "upsert"
    /\ UNCHANGED << run, dry_run, limit, page, items, updated, failed, exit_code, report >>
    /\ UNCHANGED << serverVars, historyVars >>

\* lines 170-174: the sink answered
UpsertReturn ==
    /\ pc = "upsert_wait"
    /\ rpc = "returned"
    /\ EndRequest
    /\ IF last.upsert_status = "created"
       THEN created' = created + 1 /\ UNCHANGED updated
       ELSE updated' = updated + 1 /\ UNCHANGED created
    /\ idx' = idx + 1
    /\ pc' = "upsert"
    /\ UNCHANGED << run, dry_run, limit, page, items, failed, exit_code, report >>
    /\ UNCHANGED << serverVars, historyVars >>

\* request_with_retries gave up after max_attempts calls that all failed retryably
BudgetExhausted ==
    /\ rpc = "raised"
    /\ calls = max_attempts
    /\ retryable_calls = max_attempts

\* An upsert loop that stops at the first record that fails
UpsertRaise_break ==
    /\ pc = "upsert_wait"
    /\ rpc = "raised"
    /\ EndRequest
    /\ failed' = failed + 1
    /\ exit_code' = Some(2)
    /\ pc' = "done"
    /\ exhausted' = IF BudgetExhausted THEN exhausted + 1 ELSE exhausted
    /\ UNCHANGED << run, dry_run, limit, page, items, idx, created, updated, report >>
    /\ UNCHANGED << serverVars, pages_fetched, attempted, posts, sink_at_start, prev, faulty, tainted >>

\* An upsert loop that submits a record again after its upsert raised
UpsertRaise_same_record ==
    /\ pc = "upsert_wait"
    /\ rpc = "raised"
    /\ EndRequest
    /\ failed' = failed + 1
    /\ pc' = "upsert"
    /\ exhausted' = IF BudgetExhausted THEN exhausted + 1 ELSE exhausted
    /\ UNCHANGED << run, dry_run, limit, page, items, idx, created, updated, exit_code,
                    report >>
    /\ UNCHANGED << serverVars, pages_fetched, attempted, posts, sink_at_start, prev, faulty, tainted >>

\* lines 175-177: the upsert raised
UpsertRaise ==
    /\ pc = "upsert_wait"
    /\ rpc = "raised"
    /\ EndRequest
    /\ failed' = failed + 1
    /\ idx' = idx + 1
    /\ pc' = "upsert"
    /\ exhausted' = IF BudgetExhausted THEN exhausted + 1 ELSE exhausted
    /\ UNCHANGED << run, dry_run, limit, page, items, created, updated, exit_code, report >>
    /\ UNCHANGED << serverVars, pages_fetched, attempted, posts, sink_at_start, prev, faulty, tainted >>

\* A tool that goes back to fetching when the upsert loop is over
UpsertFinish_fetch_again ==
    /\ pc = "upsert"
    /\ idx > Len(items)
    /\ page' = Some(1)
    /\ items' = << >>
    /\ pc' = "fetch"
    /\ UNCHANGED << run, dry_run, limit, idx, created, updated, failed, exit_code, report >>
    /\ UNCHANGED << serverVars, requestVars, historyVars >>

\* A main that returns 0 whatever failed
UpsertFinish_always_0 ==
    /\ pc = "upsert"
    /\ idx > Len(items)
    /\ exit_code' = Some(0)
    /\ pc' = "done"
    /\ UNCHANGED << run, dry_run, limit, page, items, idx, created, updated, failed, report >>
    /\ UNCHANGED << serverVars, requestVars, historyVars >>

\* lines 179 and 220-223: the loop is over and main returns
UpsertFinish ==
    /\ pc = "upsert"
    /\ idx > Len(items)
    /\ exit_code' = Some(IF failed = 0 THEN 0 ELSE 2)
    /\ pc' = "done"
    /\ UNCHANGED << run, dry_run, limit, page, items, idx, created, updated, failed, report >>
    /\ UNCHANGED << serverVars, requestVars, historyVars >>

Limits == {None, Some(MinLimit), Some(0), Some(MaxLimit)}

NoRun == [full |-> FALSE, completed |-> FALSE, failed |-> 0]

\* The locals of a run that has not started any request yet
StartMain ==
    /\ page = Some(1)
    /\ items = << >>
    /\ idx = 0
    /\ created = 0
    /\ updated = 0
    /\ failed = 0
    /\ exit_code = None
    /\ report = None
    /\ calls = 0
    /\ slept = 0
    /\ sleep_s = Num(0)
    /\ last = NoOutcome
    /\ exc = ""
    /\ first_ok = 0
    /\ retryable_calls = 0
    /\ pages_fetched = 0
    /\ attempted = << >>
    /\ exhausted = 0
    /\ posts = 0

\* The services as seed_source and admin_reset leave them, and main starting
\* (lines 182-196) with any arguments
Init ==
    /\ FAIL_SOURCE_PAGE_2_ONCE = TRUE
    /\ SINK_ITEMS_BY_EXTERNAL_ID = << >>
    /\ sink_write_calls = 0
    /\ sink_at_start = << >>
    /\ prev = NoRun
    /\ faulty = 0
    /\ tainted = FALSE
    /\ run = 1
    /\ dry_run \in BOOLEAN
    /\ limit \in Limits
    /\ pc = "fetch"
    /\ rpc = "idle"
    /\ req = NoRequest
    /\ attempt = 0
    /\ StartMain

\* The tool is run again against the same services (no reset in between)
NextRun ==
    /\ pc \in {"done", "aborted"}
    /\ run < MaxRuns
    /\ run' = run + 1
    /\ dry_run' \in BOOLEAN
    /\ limit' \in Limits
    /\ pc' = "fetch"
    /\ page' = Some(1)
    /\ items' = << >>
    /\ idx' = 0
    /\ created' = 0
    /\ updated' = 0
    /\ failed' = 0
    /\ exit_code' = None
    /\ report' = None
    /\ rpc' = "idle"
    /\ req' = NoRequest
    /\ attempt' = 0
    /\ calls' = 0
    /\ slept' = 0
    /\ sleep_s' = Num(0)
    /\ last' = NoOutcome
    /\ exc' = ""
    /\ first_ok' = 0
    /\ retryable_calls' = 0
    /\ pages_fetched' = 0
    /\ attempted' = << >>
    /\ exhausted' = 0
    /\ posts' = 0
    /\ sink_at_start' = SINK_ITEMS_BY_EXTERNAL_ID
    /\ prev' = [full |-> ~dry_run /\ IsNone(limit), completed |-> pc = "done",
                failed |-> failed]
    /\ tainted' = FALSE
    /\ UNCHANGED << serverVars, faulty >>

Next ==
    \/ Deliver
    \/ LoseRequest
    \/ LoseResponse
    \/ Refuse
    \/ Sleep
    \/ FetchPage
    \/ FetchReturn
    \/ FetchExit
    \/ FetchRaise
    \/ DryRunReport
    \/ UpsertBegin
    \/ UpsertNext
    \/ UpsertReturn
    \/ UpsertRaise
    \/ UpsertFinish
    \/ NextRun

Spec == Init /\ [][Next]_vars

-----------------------------------------------------------------------------
(* request_with_retries on its own, against any service *)

Statuses == {200, 204, 302, 399, 400, 404, 408, 409, 429, 499, 500, 503, 599}
RetryAfterHeaders == {None} \cup {Some(t) : t \in RetryAfterTexts}
Outcomes ==
    {Response(st, h, << >>, None, "") : st \in Statuses, h \in RetryAfterHeaders}
        \cup {Fault("NetworkError"), Fault("TimeoutException")}

\* One call of request_with_retries has just started
InitRetry ==
    /\ FAIL_SOURCE_PAGE_2_ONCE = TRUE
    /\ SINK_ITEMS_BY_EXTERNAL_ID = << >>
    /\ sink_write_calls = 0
    /\ sink_at_start = << >>
    /\ prev = NoRun
    /\ faulty = 0
    /\ tainted = FALSE
    /\ run = 1
    /\ dry_run = FALSE
    /\ limit = None
    /\ StartMain
    /\ pc = "request"
    /\ rpc = "attempt"
    /\ attempt = 1
    /\ req \in {GetRequest(1), PostRequest(Payload(Item(1)))}

\* client.request yields any response or fault
AnyOutcome ==
    /\ rpc = "attempt"
    /\ \E out \in Outcomes : Respond(out)
    /\ UNCHANGED << serverVars, mainVars, historyVars >>

NextRetry ==
    \/ AnyOutcome
    \/ Sleep

SpecRetry == InitRetry /\ [][NextRetry]_vars

-----------------------------------------------------------------------------
(* backoff on its own, with the delays of RetryPolicy, for any attempt number *)

\* backoff(attempt, retry.base_delay_s, retry.max_delay_s) is about to be computed
InitBackoff ==
    /\ FAIL_SOURCE_PAGE_2_ONCE = TRUE
    /\ SINK_ITEMS_BY_EXTERNAL_ID = << >>
    /\ sink_write_calls = 0
    /\ sink_at_start = << >>
    /\ prev = NoRun
    /\ faulty = 0
    /\ tainted = FALSE
    /\ run = 1
    /\ dry_run = FALSE
    /\ limit = None
    /\ StartMain
    /\ pc = "backoff"
    /\ rpc = "attempt"
    /\ req = NoRequest
    /\ attempt \in 1 .. MaxAttemptNo

\* lines 40-43: backoff returns a delay or raises
ComputeBackoff ==
    /\ pc = "backoff"
    /\ rpc = "attempt"
    /\ IF backoff_raises(attempt)
       THEN /\ rpc' = "raised"
            /\ exc' = "OverflowError"
            /\ UNCHANGED sleep_s
       ELSE /\ rpc' = "sleep"
            /\ \E j \in Jitter : sleep_s' = policy_backoff(attempt, j)
            /\ UNCHANGED exc
    /\ UNCHANGED << req, attempt, calls, slept, last, first_ok, retryable_calls >>
    /\ UNCHANGED << serverVars, mainVars, historyVars >>

NextBackoff == ComputeBackoff

SpecBackoff == InitBackoff /\ [][NextBackoff]_vars

-----------------------------------------------------------------------------
(* fetch_all_source_items against a source that answers with any cursor *)

Cursors == {None} \cup {Some(c) : c \in {0 - 1, 0, 1, max_pages, max_pages + 1}}

\* The source answers a page request with an empty page and any next_page
AnyCursor ==
    /\ rpc = "attempt"
    /\ req.method = "GET"
    /\ \E c \in Cursors : Respond(Response(200, None, << >>, c, ""))
    /\ UNCHANGED << serverVars, mainVars, historyVars >>

\* The model follows the fetcher no further than one request past max_pages
FetchPageCapped ==
    /\ pages_fetched <= max_pages
    /\ FetchPage

NextCursor ==
    \/ AnyCursor
    \/ LoseRequest
    \/ Sleep
    \/ FetchPageCapped
    \/ FetchReturn
    \/ FetchExit
    \/ FetchRaise

SpecCursor == Init /\ [][NextCursor]_vars

-----------------------------------------------------------------------------
(* The tool against the mock service over a network that loses nothing: every *)
(* request is delivered and answered, and the tool always takes its next step *)

NextMock ==
    \/ Deliver
    \/ Sleep
    \/ FetchPage
    \/ FetchReturn
    \/ FetchExit
    \/ DryRunReport
    \/ UpsertBegin
    \/ UpsertNext
    \/ UpsertReturn
    \/ UpsertFinish
    \/ NextRun

SpecMock == Init /\ [][NextMock]_vars /\ WF_vars(NextMock)

-----------------------------------------------------------------------------
(* Properties of the sync against the mock service (Spec) *)

SinkCount == Cardinality(DOMAIN SINK_ITEMS_BY_EXTERNAL_ID)
SourceIds == {SOURCE_ITEMS[i].external_id : i \in 1 .. Len(SOURCE_ITEMS)}
IsPrefix(a, b) == Len(a) <= Len(b) /\ a = SubSeq(b, 1, Len(a))
FullSync == ~dry_run /\ IsNone(limit)

\* Every record of the sink is filed under its own external_id, and only source
\* records are in the sink
OnePerExternalId ==
    /\ \A k \in DOMAIN SINK_ITEMS_BY_EXTERNAL_ID :
            SINK_ITEMS_BY_EXTERNAL_ID[k].external_id = k
    /\ DOMAIN SINK_ITEMS_BY_EXTERNAL_ID \subseteq SourceIds
    /\ SinkCount <= Cardinality(SourceIds)

\* This run is a full sync that ended, and so was the run before it
SecondFullSyncOver ==
    /\ run >= 2
    /\ prev.full
    /\ prev.completed
    /\ FullSync
    /\ pc \in {"done", "aborted"}

\* C1 as stated: a full sync run after a full sync against the same sink leaves the
\* sink's record count as the first run left it, and the sink never holds more than
\* one record per external_id nor more records than the source has external_ids.
C1_SecondRunSameCount ==
    /\ OnePerExternalId
    /\ SecondFullSyncOver => SinkCount = Cardinality(DOMAIN sink_at_start)

\* C1 amended: the second full sync leaves the count as the first left it when the
\* first ended with failed_count = 0 (a record the first run failed to write can be
\* added by the second); the sink never holds more than one record per external_id
\* nor more records than the source has external_ids.
C1_SecondRunSameCountAfterCleanRun ==
    /\ OnePerExternalId
    /\ (SecondFullSyncOver /\ prev.failed = 0) =>
            SinkCount = Cardinality(DOMAIN sink_at_start)

\* Two full syncs ended, the first without a failed record, the second having
\* re-submitted every record, with 429 rejections on the way
C1_Witness ==
    /\ SecondFullSyncOver
    /\ run = 2
    /\ prev.failed = 0
    /\ pc = "done"
    /\ updated = NumItems
    /\ SinkCount = NumItems
    /\ sink_write_calls > 2 * NumItems

\* C3: with the source's page 2 failing once with a 500, a fetch without a limit
\* returns every source record once, in source order: what is accumulated is always a
\* prefix of the source, the result is the whole source, and the 500 alone never
\* aborts the fetch (an abort needs the network to have disturbed the request).
C3_FetchComplete ==
    /\ pc \in {"fetch", "fetch_wait"} => IsPrefix(items, SOURCE_ITEMS)
    /\ (pc \in {"fetched", "upsert", "upsert_wait", "done"} /\ IsNone(limit)) =>
            items = SOURCE_ITEMS
    /\ pc = "aborted" => tainted

\* The first fetch, undisturbed by the network, returned after page 2 failed once
C3_Witness ==
    /\ pc = "fetched"
    /\ run = 1
    /\ faulty = 0
    /\ IsNone(limit)
    /\ ~FAIL_SOURCE_PAGE_2_ONCE
    /\ Len(items) = NumItems
    /\ NumItems > PageSize

\* C4: a page request that raises (retry budget exhausted, or a fatal status) ends
\* the run there: the fetcher does not go on, no POST was issued in the run, the
\* sink is as the run found it and main returns no exit code.
C4_AbortBeforeWrites ==
    /\ [][(pc = "fetch_wait" /\ rpc = "raised") =>
            (pc' = "aborted" /\ UNCHANGED serverVars)]_vars
    /\ [](pc = "aborted" =>
            /\ posts = 0
            /\ SINK_ITEMS_BY_EXTERNAL_ID = sink_at_start
            /\ IsNone(exit_code)
            /\ attempted = << >>)

\* A second run aborted on a page whose request used up its six attempts, against a
\* sink the first run had filled
C4_Witness ==
    /\ pc = "aborted"
    /\ run = 2
    /\ BudgetExhausted
    /\ req.method = "GET"
    /\ SinkCount = NumItems

\* A run aborted on a page request that was refused with a fatal status
C4_WitnessFatal ==
    /\ pc = "aborted"
    /\ exc = "HTTPStatusError"
    /\ calls = 1
    /\ last.status = 404

\* C5: when exactly one record's upsert fails, by exhausting its retry budget, and
\* the others succeed, failed_count is 1 at the end; whatever fails, the loop runs to
\* its end and an upsert was started for every record of the input, in order.
C5_FailIsolation ==
    /\ pc \in {"upsert", "upsert_wait"} =>
            /\ exhausted <= failed
            /\ IsPrefix(attempted, ExternalIds(items))
            /\ Len(attempted) = IF pc = "upsert" THEN idx - 1 ELSE idx
    /\ (pc = "done" /\ ~dry_run) =>
            /\ attempted = ExternalIds(items)
            /\ exhausted <= failed
            /\ (exhausted = 1 /\ created + updated = Len(items) - 1) => failed = 1

\* A first full sync ended with one record, not the last one, failed after six
\* attempts, and every later record written
C5_Witness ==
    /\ pc = "done"
    /\ run = 1
    /\ FullSync
    /\ exhausted = 1
    /\ failed = 1
    /\ created + updated = NumItems - 1
    /\ \E i \in 1 .. NumItems - 1 :
            /\ i \notin DOMAIN SINK_ITEMS_BY_EXTERNAL_ID
            /\ \A j \in (i + 1) .. NumItems : j \in DOMAIN SINK_ITEMS_BY_EXTERNAL_ID

-----------------------------------------------------------------------------
(* Properties of fetch_all_source_items against any cursors (SpecCursor) *)

\* C2: fetch_all_source_items requests at most max_pages (100) pages, whatever
\* next_page values the source returns.
C2_AtMostMaxPagesRequests == pages_fetched <= max_pages

-----------------------------------------------------------------------------
(* Properties of request_with_retries (SpecRetry) *)

\* The exception that carries the failure of the last network call
LastFailure == IF last.kind = "response" THEN "HTTPStatusError" ELSE last.kind

\* The last network call was answered with a retryable status and was not the last
\* attempt allowed
RetryableStatusBeforeLast ==
    /\ last.kind = "response"
    /\ RetryableStatus(last.status)
    /\ calls < max_attempts

\* The tool is about to sleep d after its last call, or has slept d and is at the
\* next attempt
SleepsBeforeNextAttempt(d) ==
    \/ rpc = "sleep" /\ attempt = calls /\ sleep_s = d
    \/ rpc = "attempt" /\ attempt = calls + 1 /\ slept = calls /\ sleep_s = d

\* The Retry-After header is there and parses as a finite number >= 0
HintUsable(h) ==
    /\ ~IsNone(h)
    /\ ~IsNone(float(Get(h)))
    /\ Get(float(Get(h))).kind = "num"
    /\ Get(float(Get(h))).v >= 0

\* The Retry-After header is absent, empty, not a number, or a negative number
HintUnusable(h) ==
    \/ IsNone(h)
    \/ Get(h) = ""
    \/ IsNone(float(Get(h)))
    \/ Get(float(Get(h))).kind = "num" /\ Get(float(Get(h))).v < 0

Backoffs(n) == {policy_backoff(n, j) : j \in Jitter}

\* C6: one call of request_with_retries makes at most max_attempts network calls,
\* and when max_attempts calls were made and all of them failed retryably (status
\* 429, 408, 5xx or a network fault, in any mix), the call has raised the failure of
\* the last one: it neither sleeps, nor calls again, nor returns a response.
C6_AttemptBudget ==
    /\ calls <= max_attempts
    /\ attempt <= max_attempts
    /\ (calls = max_attempts /\ retryable_calls = max_attempts) =>
            (rpc = "raised" /\ exc = LastFailure)

\* Six calls failed retryably, the last one with a 503, five sleeps were made
\* between them, and the call raised
C6_Witness ==
    /\ rpc = "raised"
    /\ calls = max_attempts
    /\ retryable_calls = max_attempts
    /\ slept = max_attempts - 1
    /\ last.kind = "response"
    /\ last.status = 503
    /\ exc = "HTTPStatusError"

\* C7 as stated: a response whose status is not 2xx and not 429, 408 or 5xx ends the
\* call with a failure at once.
C7_NonSuccessIsFatal ==
    (/\ last.kind = "response"
     /\ ~(200 <= last.status /\ last.status <= 299)
     /\ ~RetryableStatus(last.status)) =>
        (rpc = "raised" /\ exc = "HTTPStatusError")

\* C7 amended: a response whose status is 400 or more and not 429, 408 or 5xx ends
\* the call with a failure at once, without a sleep or another attempt (a 1xx or 3xx
\* status is below 400 and is returned as a success).
C7_ClientErrorIsFatal ==
    (/\ last.kind = "response"
     /\ last.status >= 400
     /\ ~RetryableStatus(last.status)) =>
        (rpc = "raised" /\ exc = "HTTPStatusError" /\ slept = calls - 1)

\* A 404 on the first attempt ended the call
C7_Witness ==
    /\ rpc = "raised"
    /\ calls = 1
    /\ slept = 0
    /\ last.kind = "response"
    /\ last.status = 404
    /\ exc = "HTTPStatusError"

\* C8: after a retryable status on an attempt that is not the last, with a
\* Retry-After header that parses as a finite number >= 0, the sleep before the next
\* attempt is exactly that number of seconds.
C8_RetryAfterPrecedence ==
    (RetryableStatusBeforeLast /\ HintUsable(last.retry_after)) =>
        SleepsBeforeNextAttempt(Get(float(Get(last.retry_after))))

\* A 429 with Retry-After: 1 was followed by a sleep of one second, which no
\* computed backoff of that attempt equals, and the next attempt is due
C8_Witness ==
    /\ rpc = "attempt"
    /\ attempt = 2
    /\ slept = 1
    /\ last.kind = "response"
    /\ last.status = 429
    /\ last.retry_after = Some("1")
    /\ sleep_s = Seconds(1)
    /\ sleep_s \notin Backoffs(1)

\* C9: after a retryable status on an attempt that is not the last, with a
\* Retry-After header that is absent, empty, not numeric or negative, the tool sleeps
\* the computed backoff of that attempt and goes on to the next attempt.
C9_UnusableHintFallsBack ==
    (RetryableStatusBeforeLast /\ HintUnusable(last.retry_after)) =>
        \E d \in Backoffs(calls) : SleepsBeforeNextAttempt(d)

\* C10: the call returns on the first network call answered with a status below
\* 400, with that response, having slept only between the calls before it: the
\* number of calls is the index of that call.
C10_FirstSuccessReturns ==
    /\ first_ok # 0 =>
            /\ rpc = "returned"
            /\ calls = first_ok
            /\ slept = calls - 1
            /\ last.kind = "response"
            /\ last.status < 400
    /\ rpc = "returned" => first_ok = calls

\* The third call was the first one answered below 400, and the call returned
C10_Witness ==
    /\ rpc = "returned"
    /\ calls = 3
    /\ first_ok = 3
    /\ slept = 2
    /\ last.status = 204

-----------------------------------------------------------------------------
(* Properties of a run with --limit (Spec) *)

\* The run has a limit L that is a record count below the source's size
LimitBelowSource == ~IsNone(limit) /\ Get(limit) >= 0 /\ Get(limit) < Len(SOURCE_ITEMS)
FirstOfSource(n) == SubSeq(SOURCE_ITEMS, 1, n)
FetchOver == pc \in {"fetched", "upsert", "upsert_wait", "done"}

\* What C11 says of the fetcher and of the records handed to upsert_sink_items: the
\* fetch returns the first L source records in order, a page after the first is
\* requested only while fewer than L records are accumulated, the last page
\* requested is the one that brought the count to L, and upserts are started for
\* those L records and no others.
LimitedFetch ==
    LET L == Get(limit)
    IN  /\ (pc = "fetch_wait" /\ pages_fetched > 1) => Len(items) < L
        /\ FetchOver =>
                /\ items = FirstOfSource(L)
                /\ pages_fetched * PageSize >= L
                /\ pages_fetched = 1 \/ (pages_fetched - 1) * PageSize < L
                /\ IsPrefix(attempted, ExternalIds(FirstOfSource(L)))
        /\ (pc = "done" /\ ~dry_run) => attempted = ExternalIds(FirstOfSource(L))

\* C11 as stated: with a limit L below the source's size the fetch returns the first
\* L source records in order and requests no page after the count reached L, those L
\* records are handed to upsert_sink_items, and a run from an empty sink ends with
\* exactly L sink records.
C11_LimitTruncation ==
    LimitBelowSource =>
        /\ LimitedFetch
        /\ (pc = "done" /\ ~dry_run /\ sink_at_start = << >>) => SinkCount = Get(limit)

\* C11 amended: the same, the run from an empty sink ending with exactly L sink
\* records when it ends with failed_count = 0 (a record whose upsert failed is not
\* in the sink).
C11_LimitTruncationOfCleanRun ==
    LimitBelowSource =>
        /\ LimitedFetch
        /\ (pc = "done" /\ ~dry_run /\ sink_at_start = << >> /\ failed = 0) =>
                SinkCount = Get(limit)

\* A first run with --limit MaxLimit ended without a failed record: the fetch
\* stopped in the middle of the source, after a page that it had to cut
C11_Witness ==
    /\ pc = "done"
    /\ run = 1
    /\ ~dry_run
    /\ limit = Some(MaxLimit)
    /\ MaxLimit < NumItems
    /\ MaxLimit % PageSize # 0
    /\ pages_fetched * PageSize > MaxLimit
    /\ failed = 0
    /\ created = MaxLimit
    /\ SinkCount = MaxLimit

-----------------------------------------------------------------------------
(* Properties of the dry run (Spec) *)

\* A dry run sent nothing to the sink's write endpoint and left the sink as it was
DryRunWritesNothing ==
    dry_run =>
        /\ posts = 0
        /\ attempted = << >>
        /\ SINK_ITEMS_BY_EXTERNAL_ID = sink_at_start
        /\ SinkCount = Cardinality(DOMAIN sink_at_start)

\* The preview of a list of n records holds its first min(n, 20) external_ids
PreviewOfFirst(n) ==
    LET ids == report_external_ids([i \in 1 .. n |-> Item(i)])
    IN  /\ Len(ids) = Min(n, report_preview)
        /\ Len(ids) <= report_preview
        /\ \A i \in 1 .. Len(ids) : ids[i] = i

\* The report of a completed dry run: exit code 0, as many external_ids as the
\* preview takes of the fetched records, and of any longer list at most 20
DryRunReported ==
    (dry_run /\ pc = "done") =>
        /\ exit_code = Some(0)
        /\ ~IsNone(report)
        /\ Get(report).external_ids =
                ExternalIds(SubSeq(items, 1, Min(Len(items), report_preview)))
        /\ \A n \in 0 .. MaxReported : PreviewOfFirst(n)

\* C12 as stated: after a dry run no request was sent to the sink's write endpoint
\* and the sink's record count is unchanged; the report's count is the source's total
\* record count, its external_ids are at most 20, and the dry run exits 0.
C12_DryRunPurity ==
    /\ DryRunWritesNothing
    /\ DryRunReported
    /\ (dry_run /\ pc = "done") => Get(report).count = Len(SOURCE_ITEMS)

\* C12 amended: the report's count is the number of records fetched, which is the
\* source's total record count when no limit is set.
C12_DryRunPurityCountFetched ==
    /\ DryRunWritesNothing
    /\ DryRunReported
    /\ (dry_run /\ pc = "done") =>
            /\ Get(report).count = Len(items)
            /\ IsNone(limit) => Get(report).count = Len(SOURCE_ITEMS)

\* A dry run without a limit ended, against a sink the run before it had filled
C12_Witness ==
    /\ pc = "done"
    /\ run = 2
    /\ dry_run
    /\ IsNone(limit)
    /\ prev.full
    /\ SinkCount = NumItems
    /\ sink_write_calls > NumItems
    /\ posts = 0
    /\ exit_code = Some(0)
    /\ Get(report).count = NumItems
    /\ MaxReported > report_preview

-----------------------------------------------------------------------------
(* Properties of the first sync against the mock service (SpecMock) *)

\* The first run after a reset, a sync of the whole source
FirstFullSync == run = 1 /\ FullSync

\* The run ended with every source record in the sink, none failed, exit code 0
EndedComplete ==
    /\ pc = "done"
    /\ DOMAIN SINK_ITEMS_BY_EXTERNAL_ID = SourceIds
    /\ SinkCount = Len(SOURCE_ITEMS)
    /\ created = Len(SOURCE_ITEMS)
    /\ failed = 0
    /\ exit_code = Some(0)

\* C13: against the mock service (page 2 of the source fails once with a 500, the
\* sink rejects every 5th write call with a 429 and Retry-After: 1) the first full
\* sync after a reset ends with every source record in the sink, failed_count = 0
\* and exit code 0; no request of the run needs more than two attempts, the sink
\* never rejects two calls in a row, and no record exhausts its budget.
C13_MockScenario ==
    /\ [](FirstFullSync =>
            /\ calls <= 2
            /\ (req.method = "POST" /\ calls = 2) => rpc = "returned"
            /\ failed = 0
            /\ exhausted = 0
            /\ pc # "aborted"
            /\ pc = "done" => EndedComplete)
    /\ [][(sink_write_calls' = sink_write_calls + 1 /\ sink_rejects(sink_write_calls)) =>
            ~sink_rejects(sink_write_calls')]_vars
    /\ (FirstFullSync /\ pc = "fetch") ~> (FirstFullSync /\ EndedComplete)

\* The first full sync ended complete after the source's page 2 had failed once and
\* the sink had rejected a write call
C13_Witness ==
    /\ FirstFullSync
    /\ EndedComplete
    /\ ~FAIL_SOURCE_PAGE_2_ONCE
    /\ NumItems > PageSize
    /\ sink_write_calls > NumItems
    /\ NumItems >= SINK_429_EVERY_N_CALLS
    /\ posts = sink_write_calls

-----------------------------------------------------------------------------
(* Properties of main's result (Spec) *)

\* C14: main returns 0 exactly when the run completed with failed_count = 0 or was
\* a completed dry run, and 2 exactly when the upserts completed with failed_count
\* of 1 or more; a run that reaches the end of main returns no other code, and a run
\* that has not reached it has returned none.
C14_ExitCodes ==
    /\ pc = "done" =>
            /\ exit_code \in {Some(0), Some(2)}
            /\ exit_code = Some(0) <=> (dry_run \/ failed = 0)
            /\ exit_code = Some(2) <=> (~dry_run /\ failed >= 1)
            /\ dry_run => failed = 0
    /\ pc # "done" => IsNone(exit_code)

\* A sync ended with exit code 2: one record failed and the others were written
C14_Witness ==
    /\ pc = "done"
    /\ ~dry_run
    /\ IsNone(limit)
    /\ exit_code = Some(2)
    /\ failed = 1
    /\ created + updated = NumItems - 1
    /\ idx = NumItems + 1

-----------------------------------------------------------------------------
(* Properties of upsert_sink_items (Spec) *)

\* Records of the input whose iteration of the loop is over
Processed ==
    CASE pc = "upsert" -> idx - 1
      [] pc = "upsert_wait" -> idx - 1
      [] pc = "done" -> Len(items)
      [] OTHER -> 0

\* C15: in upsert_sink_items, after each iteration created + updated + failed is the
\* number of records processed so far, on return it is the number of records passed
\* in, whatever succeeded, was retried or failed, and no count is negative.
C15_TallyInvariant ==
    /\ created >= 0
    /\ updated >= 0
    /\ failed >= 0
    /\ (~dry_run /\ pc \in {"upsert", "upsert_wait", "done"}) =>
            created + updated + failed = Processed
    /\ (~dry_run /\ pc = "done") => created + updated + failed = Len(items)

\* A sync of the whole source ended with records created, updated and failed
C15_Witness ==
    /\ pc = "done"
    /\ ~dry_run
    /\ IsNone(limit)
    /\ created >= 1
    /\ updated >= 1
    /\ failed >= 1
    /\ created + updated + failed = NumItems
    /\ sink_write_calls > NumItems

\* No external_id occurs twice in the sequence
NoDuplicates(ids) == \A i, j \in 1 .. Len(ids) : ids[i] = ids[j] => i = j

\* C16: within one run, upsert_sink_items starts exactly one upsert (one call of
\* request_with_retries) for each record the fetcher returned, in the fetched order,
\* and none for any other record: the external_ids it has started an upsert for are
\* a prefix of the fetched ones while the loop runs and all of them when it is over,
\* each once, however many network calls the upserts took.
C16_OneUpsertPerRecord ==
    /\ pc \in {"fetch", "fetch_wait", "fetched", "aborted"} => attempted = << >>
    /\ dry_run => attempted = << >>
    /\ pc = "upsert" =>
            attempted = SubSeq(ExternalIds(items), 1, idx - 1)
    /\ pc = "upsert_wait" =>
            /\ attempted = SubSeq(ExternalIds(items), 1, idx)
            /\ req = PostRequest(Payload(items[idx]))
    /\ (pc = "done" /\ ~dry_run) => attempted = ExternalIds(items)
    /\ NoDuplicates(attempted)
    /\ posts >= Len(attempted) - (IF pc = "upsert_wait" /\ calls = 0 THEN 1 ELSE 0)

\* A sync with a limit ended: one upsert was started for each fetched record, in
\* order, one of them failed and more network calls than records were made
C16_Witness ==
    /\ pc = "done"
    /\ ~dry_run
    /\ limit = Some(MaxLimit)
    /\ Len(items) = MaxLimit
    /\ attempted = ExternalIds(items)
    /\ failed = 1
    /\ posts > Len(attempted)

-----------------------------------------------------------------------------
(* Properties of backoff (SpecBackoff) *)

\* min(cap, base * 2^(n-1)) of the claim; 2^(n-1) is beyond every delay of the model
\* from n = 20 on
ClaimedDelay(n, base, cap) == IF n >= 20 THEN cap ELSE Min(cap, base * Pow2(n - 1))

\* x lies in [0.5 * d, 1.5 * d), d in milliseconds and x a float in ticks
InJitterRange(x, d) ==
    /\ x.kind = "num"
    /\ 2 * x.v >= d * TicksPerMs
    /\ 2 * x.v < 3 * d * TicksPerMs

\* C17: for every attempt number n >= 1, backoff(n, base, cap) returns a delay in
\* [0.5 * min(cap, base * 2^(n-1)), 1.5 * min(cap, base * 2^(n-1))), so below
\* 1.5 * max_delay however large n is.
C17_BackoffRange ==
    (pc = "backoff" /\ rpc # "attempt") =>
        /\ rpc = "sleep"
        /\ InJitterRange(sleep_s, ClaimedDelay(attempt, base_delay_ms, max_delay_ms))
        /\ 2 * sleep_s.v < 3 * max_delay_ms * TicksPerMs

-----------------------------------------------------------------------------
(* Properties of the order of the network calls of a run (Spec) *)

\* A call of request_with_retries is open: started and not yet handed back to its
\* caller
RequestOpen == rpc # "idle"

\* C18: at most one network call is in flight at any time, and pagination and
\* reconciliation are strictly sequential: the one open request is the page main is
\* waiting for or the upsert main is waiting for; no request to the sink's write
\* endpoint is issued before the last page fetch of the run has returned, and no
\* page is requested after the first sink write.
C18_StrictlySequential ==
    /\ RequestOpen =>
            \/ pc \in {"fetch_wait", "aborted"} /\ req.method = "GET"
            \/ pc = "upsert_wait" /\ req.method = "POST"
    /\ ~RequestOpen => req = NoRequest
    /\ pc \in {"fetch", "fetch_wait", "fetched", "aborted"} =>
            /\ posts = 0
            /\ attempted = << >>
            /\ req.method # "POST"
    /\ (posts > 0 \/ attempted # << >>) =>
            /\ pc \in {"upsert", "upsert_wait", "done"}
            /\ req.method # "GET"
            /\ ~fetch_more(page) \/ (~IsNone(limit) /\ Len(items) >= Get(limit))

\* The first sink write of a run is in flight, after every page of the source was
\* fetched, page 2 on its second attempt
C18_Witness ==
    /\ pc = "upsert_wait"
    /\ rpc = "attempt"
    /\ req.method = "POST"
    /\ posts = 0
    /\ idx = 1
    /\ run = 1
    /\ IsNone(limit)
    /\ Len(items) = NumItems
    /\ pages_fetched * PageSize >= NumItems
    /\ pages_fetched > 1
    /\ ~FAIL_SOURCE_PAGE_2_ONCE

-----------------------------------------------------------------------------
(* Properties of the counts upsert_sink_items returns (Spec) *)

\* Fetched records that were in the sink when the run started
PresentAtStart ==
    Cardinality({i \in 1 .. Len(items) : items[i].external_id \in DOMAIN sink_at_start})

\* C19: when every record's upsert of a run succeeded in the end, created_count is
\* the number of external_ids the run added to the sink (the sink's count after the
\* run minus its count before) and updated_count the number of records that were
\* there at the start, also when an attempt ended in a network fault and was
\* retried, the request lost before the sink or the response lost after the sink
\* applied the write.
C19_CountsMatchSink ==
    (pc = "done" /\ ~dry_run /\ failed = 0) =>
        /\ created = SinkCount - Cardinality(DOMAIN sink_at_start)
        /\ updated = PresentAtStart

-----------------------------------------------------------------------------
(* Properties of the sleeps of request_with_retries (SpecRetry) *)

\* C20: request_with_retries never sleeps after its final attempt: a call that made
\* k attempts has slept at most k - 1 times, a sleep is pending only while another
\* attempt is left and is followed at once by that attempt, and a failure on attempt
\* max_attempts (a retryable status or a network fault) is raised without a delay.
C20_NoSleepAfterFinalAttempt ==
    /\ [](rpc \in {"returned", "raised"} => (calls >= 1 /\ slept <= calls - 1))
    /\ [](rpc = "sleep" =>
            (calls < max_attempts /\ attempt = calls /\ slept = calls - 1))
    /\ [](rpc = "attempt" => (slept = calls /\ attempt = calls + 1))
    /\ [](calls = max_attempts =>
            (rpc \in {"returned", "raised"} /\ slept = max_attempts - 1))
    /\ [][slept' # slept =>
            (slept' = slept + 1 /\ rpc' = "attempt" /\ attempt' = attempt + 1
                /\ attempt' <= max_attempts)]_vars
    /\ [][rpc = "attempt" => (calls' = calls + 1 /\ slept' = slept)]_vars

\* The sixth attempt ended in a network fault after five sleeps and the fault was
\* raised
C20_Witness ==
    /\ rpc = "raised"
    /\ calls = max_attempts
    /\ attempt = max_attempts
    /\ slept = max_attempts - 1
    /\ last.kind = "NetworkError"
    /\ exc = "NetworkError"

====
